---- MODULE Spec2Model ----
(***************************************************************************)
(* A model of display_pin.py: the DisplayPin panel and its data widgets    *)
(* (DisplayPinDataAnalog, DisplayPinDataPWM, DisplayPinDataBooleanText and *)
(* its two subclasses, DisplayPinDataMusic).                               *)
(*                                                                         *)
(* Python values are tagged records (PyNone, PyInt, PyBool, PyStr, PyTup); *)
(* strings are sequences of one-character strings so that split() and      *)
(* format() are computed.  A widget object is a record of its fields; the  *)
(* drawables it owns are the fields line_x (TileGrid.x of the bar graph    *)
(* marker), bmp (the set of wave bitmap pixels holding _LINE_COL_IDX) and  *)
(* text (Label.text).  spy counts the writes to those drawables made by    *)
(* the last call, exc is the exception the last call raised ("" if none).  *)
(* The static scale drawables are built once and never written again; they *)
(* are not part of the state.                                              *)
(***************************************************************************)
EXTENDS Integers, Sequences, FiniteSets, TLC

VARIABLES obj, panel, data, op, exc

vars == <<obj, panel, data, op, exc>>

\* ---------------------------------------------------------------- bounds
SmallWidth == 6
SmallHeight == 9
SmallRange == 12

\* ------------------------------------------------------ program constants
CP_RANGE == 65536
MP_RANGE == 1024
DefaultWidth == 100
NAME_WIDTH == 3
Gap == 4
AnalogLineWidth == 2
PWMLineWidth == 1
PWMScaleHeight == 3
FONT_BB == <<6, 14>>

\* ---------------------------------------------------------- Python values
S_low == <<"l", "o", "w">>
S_high == <<"h", "i", "g", "h">>
S_Hz == <<"H", "z">>

PyNone == [t |-> "none", n |-> 0, s |-> <<>>, named |-> FALSE]
PyInt(i) == [t |-> "int", n |-> i, s |-> <<>>, named |-> FALSE]
PyBool(b) == [t |-> "bool", n |-> IF b THEN 1 ELSE 0, s |-> <<>>, named |-> FALSE]
PyStr(str) == [t |-> "str", n |-> 0, s |-> str, named |-> FALSE]
\* a 2-tuple (frequency, name) where name is None or a str
PyTup(f, name) == [t |-> "tup", n |-> f, s |-> name.s, named |-> name.t = "str"]

\* tuples of the wrong arity: (frequency,) and (frequency, name, extra)
PyTup1(f) == [t |-> "tup1", n |-> f, s |-> <<>>, named |-> FALSE]
PyTup3(f, name) == [t |-> "tup3", n |-> f, s |-> name.s, named |-> name.t = "str"]

IsNone(v) == v.t = "none"
IsNumber(v) == v.t \in {"int", "bool"}

\* Python ==: numbers compare by value (True == 1), everything else by
\* type and content
PyEq(a, b) ==
    IF IsNumber(a) /\ IsNumber(b) THEN a.n = b.n
    ELSE a.t = b.t /\ a.n = b.n /\ a.s = b.s /\ a.named = b.named

\* Python bool(v)
Truthy(v) ==
    CASE v.t = "none" -> FALSE
      [] v.t \in {"int", "bool"} -> v.n # 0
      [] v.t = "str" -> Len(v.s) > 0
      [] OTHER -> TRUE

\* int(a / b) for integers a and b > 0: true division, truncated toward zero
\* (the products here stay below 2^53, where the float quotient of two
\* integers truncates to the same integer as the exact quotient)
IntDiv(a, b) == IF a >= 0 THEN a \div b ELSE -((-a) \div b)

Digit(d) == <<"0", "1", "2", "3", "4", "5", "6", "7", "8", "9">>[d + 1]

RECURSIVE DecDigits(_)
DecDigits(n) == IF n < 10 THEN <<Digit(n)>> ELSE DecDigits(n \div 10) \o <<Digit(n % 10)>>

\* "{:d}".format(n)
FormatD(n) == IF n < 0 THEN <<"-">> \o DecDigits(-n) ELSE DecDigits(n)

\* str.split(":")[0]
SplitFirst(str) ==
    LET colons == {i \in 1..Len(str) : str[i] = ":"}
    IN IF colons = {} THEN str
       ELSE SubSeq(str, 1, (CHOOSE i \in colons : \A j \in colons : i <= j) - 1)

\* ------------------------------------------------------------ the objects
NoWidget ==
    [kind |-> "none", width |-> 0, wave_height |-> 0, line_width |-> 0,
     line_scfactor |-> 0, value_range |-> 0, init_value |-> PyNone,
     value |-> PyNone, line_x |-> 0, edge |-> PyNone, bmp |-> {},
     text |-> <<>>, false_text |-> <<>>, true_text |-> <<>>, spy |-> 0, exc |-> ""]

NoPanel ==
    [units |-> "", mode |-> "", user_value |-> PyNone, width |-> 0, height |-> 0,
     data_dob_pos |-> 0, has_data |-> FALSE]

\* ------------------------------------------------- DisplayPinDataAnalog
\* _setLinePos scaling by _line_scfactor instead of _line_scfactor + 1
Mut_setLinePos_NoPlusOne(self, value) ==
    IF IsNone(value) THEN self
    ELSE LET new_x == IntDiv(self.line_scfactor * value.n, self.value_range)
         IN IF self.line_x # new_x
            THEN [self EXCEPT !.line_x = new_x, !.spy = @ + 1]
            ELSE self

\* _setLinePos writing the x position without comparing it first
Mut_setLinePos_AlwaysWrite(self, value) ==
    IF IsNone(value) THEN self
    ELSE LET new_x == IntDiv((self.line_scfactor + 1) * value.n, self.value_range)
         IN [self EXCEPT !.line_x = new_x, !.spy = @ + 1]

\* _setLinePos moving the marker back to column 0 for None
Mut_setLinePos_NoneResets(self, value) ==
    IF IsNone(value) THEN [self EXCEPT !.line_x = 0]
    ELSE LET new_x == IntDiv((self.line_scfactor + 1) * value.n, self.value_range)
         IN IF self.line_x # new_x
            THEN [self EXCEPT !.line_x = new_x, !.spy = @ + 1]
            ELSE self

DisplayPinDataAnalog_setLinePos(self, value) ==
    IF IsNone(value) THEN self
    ELSE LET new_x == IntDiv((self.line_scfactor + 1) * value.n, self.value_range)
         IN IF self.line_x # new_x
            THEN [self EXCEPT !.line_x = new_x, !.spy = @ + 1]
            ELSE self

DisplayPinDataAnalog_value(self0, value) ==
    LET self == [self0 EXCEPT !.spy = 0, !.exc = ""]
        c_value == IF IsNone(value) THEN value
                   ELSE IF value.n < 0 THEN PyInt(0)
                   ELSE IF value.n >= self.value_range THEN PyInt(self.value_range - 1)
                   ELSE value
    IN DisplayPinDataAnalog_setLinePos([self EXCEPT !.value = c_value], c_value)

DisplayPinDataAnalog_init(width, height, value, value_range, line_width) ==
    LET self == [NoWidget EXCEPT !.kind = "analog", !.width = width,
                                 !.line_width = line_width,
                                 !.line_scfactor = width - line_width,
                                 !.value_range = value_range,
                                 !.init_value = value,
                                 !.line_x = 0, !.value = PyNone]
    IN IF ~IsNone(value) THEN DisplayPinDataAnalog_value(self, value) ELSE self

\* ---------------------------------------------------- DisplayPinDataPWM
\* _waveXPos giving "high" at full scale whatever the range
Mut_waveXPos_AnyRangeHigh(self, value) ==
    IF IsNone(value) THEN PyNone
    ELSE IF value.n = 0 THEN PyStr(S_low)
    ELSE IF value.n = self.value_range - 1 THEN PyStr(S_high)
    ELSE PyInt(IntDiv((self.line_scfactor + 1) * value.n, self.value_range))

\* _waveXPos scaling by _line_scfactor instead of _line_scfactor + 1
Mut_waveXPos_NoPlusOne(self, value) ==
    IF IsNone(value) THEN PyNone
    ELSE IF value.n = 0 THEN PyStr(S_low)
    ELSE IF self.value_range >= 65536 /\ value.n = self.value_range - 1 THEN PyStr(S_high)
    ELSE PyInt(IntDiv(self.line_scfactor * value.n, self.value_range))

DisplayPinDataPWM_waveXPos(self, value) ==
    IF IsNone(value) THEN PyNone
    ELSE IF value.n = 0 THEN PyStr(S_low)
    ELSE IF self.value_range >= 65536 /\ value.n = self.value_range - 1 THEN PyStr(S_high)
    ELSE PyInt(IntDiv((self.line_scfactor + 1) * value.n, self.value_range))

\* the pixels written by "for x in range(a, b): bmp[x, y] = _LINE_COL_IDX"
HLine(a, b, y) == {<<x, y>> : x \in a..(b - 1)}
\* the pixels written by "for y in range(a, b): bmp[x, y] = _LINE_COL_IDX"
VLine(x, a, b) == {<<x, y>> : y \in a..(b - 1)}
\* the number of iterations of range(a, b)
RangeLen(a, b) == IF b > a THEN b - a ELSE 0

DisplayPinDataPWM_redrawWave(self, value) ==
    LET negedge_x == DisplayPinDataPWM_waveXPos(self, value)
        w == self.width
        h == self.wave_height
    IN IF PyEq(negedge_x, self.edge) THEN self
       ELSE LET cleared == [self EXCEPT !.edge = negedge_x, !.bmp = {}, !.spy = @ + 1]
            IN IF IsNone(value) THEN cleared
               ELSE IF negedge_x.t = "str"
               THEN LET y_level == IF negedge_x.s = S_high THEN 0 ELSE h - 1
                    IN [cleared EXCEPT !.bmp = HLine(0, w, y_level),
                                       !.spy = @ + RangeLen(0, w)]
               ELSE LET x == negedge_x.n
                        up == VLine(0, 0, h)
                        top == HLine(1, x, 0)
                        down == IF x # 0 THEN VLine(x, 0, h) ELSE {}
                        bottom == HLine(x + 1, w, h - 1)
                    IN [cleared EXCEPT
                          !.bmp = up \cup top \cup down \cup bottom,
                          !.spy = @ + RangeLen(0, h) + RangeLen(1, x)
                                    + (IF x # 0 THEN RangeLen(0, h) ELSE 0)
                                    + RangeLen(x + 1, w)]

\* the value setter clamping high values to value_range, not value_range - 1
Mut_PWM_value_ClampToRange(self0, value) ==
    LET self == [self0 EXCEPT !.spy = 0, !.exc = ""]
        c_value == IF IsNone(value) THEN value
                   ELSE IF value.n < 0 THEN PyInt(0)
                   ELSE IF value.n >= self.value_range THEN PyInt(self.value_range)
                   ELSE value
    IN IF ~PyEq(self.value, c_value)
       THEN DisplayPinDataPWM_redrawWave([self EXCEPT !.value = c_value], c_value)
       ELSE self

DisplayPinDataPWM_value(self0, value) ==
    LET self == [self0 EXCEPT !.spy = 0, !.exc = ""]
        c_value == IF IsNone(value) THEN value
                   ELSE IF value.n < 0 THEN PyInt(0)
                   ELSE IF value.n >= self.value_range THEN PyInt(self.value_range - 1)
                   ELSE value
    IN IF ~PyEq(self.value, c_value)
       THEN DisplayPinDataPWM_redrawWave([self EXCEPT !.value = c_value], c_value)
       ELSE self

DisplayPinDataPWM_init(width, height, value, value_range, line_width) ==
    LET geom == [NoWidget EXCEPT !.kind = "pwm", !.width = width,
                                 !.line_width = line_width,
                                 !.line_scfactor = width - line_width,
                                 !.value_range = value_range,
                                 !.wave_height = height - PWMScaleHeight - 3,
                                 !.init_value = value,
                                 !.bmp = {}]
        self == [geom EXCEPT !.edge = DisplayPinDataPWM_waveXPos(geom, value),
                             !.value = PyNone]
    IN IF ~IsNone(value) THEN DisplayPinDataPWM_value(self, value) ELSE self

\* -------------------------------------------- DisplayPinDataBooleanText
DisplayPinDataBooleanText_setDigstate(self, value) ==
    IF IsNone(value) THEN [self EXCEPT !.text = <<>>, !.spy = @ + 1]
    ELSE [self EXCEPT !.text = IF Truthy(value) THEN self.true_text ELSE self.false_text,
                      !.spy = @ + 1]

\* the value setter coercing None to False as well
Mut_BooleanText_value_NoneIsFalse(self0, value) ==
    LET self == [self0 EXCEPT !.spy = 0, !.exc = ""]
        new_value == PyBool(Truthy(value))
    IN IF ~PyEq(self.value, new_value)
       THEN DisplayPinDataBooleanText_setDigstate([self EXCEPT !.value = new_value],
                                                  new_value)
       ELSE self

DisplayPinDataBooleanText_value(self0, value) ==
    LET self == [self0 EXCEPT !.spy = 0, !.exc = ""]
        new_value == IF IsNone(value) THEN PyNone ELSE PyBool(Truthy(value))
    IN IF ~PyEq(self.value, new_value)
       THEN DisplayPinDataBooleanText_setDigstate([self EXCEPT !.value = new_value],
                                                  new_value)
       ELSE self

S_False == <<"F", "a", "l", "s", "e">>
S_True == <<"T", "r", "u", "e">>
S_HIGH == <<"H", "I", "G", "H">>
S_dashes == <<"-", "-", "-", "-", "-">>
S_Touch == <<"T", "o", "u", "c", "h">>

\* _FALSE_TEXT of the base class and of its two subclasses
FALSE_TEXT(kind) ==
    CASE kind = "digital" -> S_low
      [] kind = "touch" -> S_dashes
      [] OTHER -> S_False

\* _TRUE_TEXT of the base class and of its two subclasses
TRUE_TEXT(kind) ==
    CASE kind = "digital" -> S_HIGH
      [] kind = "touch" -> S_Touch
      [] OTHER -> S_True

DisplayPinDataBooleanText_init(kind, width, value) ==
    LET self == [NoWidget EXCEPT !.kind = kind, !.width = width,
                                 !.false_text = FALSE_TEXT(kind),
                                 !.true_text = TRUE_TEXT(kind),
                                 !.init_value = value,
                                 !.text = <<>>, !.value = PyNone]
    IN IF ~IsNone(value) THEN DisplayPinDataBooleanText_value(self, value) ELSE self

\* -------------------------------------------------- DisplayPinDataMusic
DisplayPinDataMusic_setNote(self, value) ==
    IF IsNone(value) THEN [self EXCEPT !.text = <<>>, !.spy = @ + 1]
    ELSE IF value.t = "str" THEN [self EXCEPT !.text = SplitFirst(value.s), !.spy = @ + 1]
    ELSE [self EXCEPT !.text = FormatD(value.n) \o S_Hz, !.spy = @ + 1]

DisplayPinDataMusic_value(self0, value) ==
    LET self == [self0 EXCEPT !.spy = 0, !.exc = ""]
    IN IF ~PyEq(self.value, value)
       THEN LET stored == [self EXCEPT !.value = value]
            IN IF value.t = "str" THEN DisplayPinDataMusic_setNote(stored, value)
               ELSE IF value.t \in {"tup", "tup3"}
               THEN DisplayPinDataMusic_setNote(stored,
                        IF ~value.named THEN PyInt(value.n) ELSE PyStr(value.s))
               \* value[1] on a 1-tuple: index out of range
               ELSE IF value.t = "tup1" THEN [stored EXCEPT !.exc = "IndexError"]
               \* value[0] on None or on a number: not subscriptable
               ELSE [stored EXCEPT !.exc = "TypeError"]
       ELSE self

DisplayPinDataMusic_init(width, value) ==
    LET self == [NoWidget EXCEPT !.kind = "music", !.width = width,
                                 !.init_value = value,
                                 !.text = <<>>, !.value = PyNone]
    IN IF ~IsNone(value) THEN DisplayPinDataMusic_value(self, value) ELSE self

\* the value setter of whichever widget self is
Widget_value(self, value) ==
    CASE self.kind = "analog" -> DisplayPinDataAnalog_value(self, value)
      [] self.kind = "pwm" -> DisplayPinDataPWM_value(self, value)
      [] self.kind = "music" -> DisplayPinDataMusic_value(self, value)
      [] OTHER -> DisplayPinDataBooleanText_value(self, value)

\* ----------------------------------------------------------- DisplayPin
Modes == {"unused", "read_analog", "write_trueanalog", "read_digital",
          "write_digital", "write_analog", "touch", "music_frequency"}

\* the units branch of __init__: the range, or 0 when value_range stays unbound
DisplayPin_value_range(units) ==
    IF units = "CP" THEN 65536
    ELSE IF units = "MP" THEN 1024
    ELSE 0

\* the panel's value setter keeping the widget's clamped value
Mut_DisplayPin_value_StoresClamped(self, widget, data_in) ==
    IF self.has_data
    THEN LET d == Widget_value(widget, data_in)
         IN [panel |-> [self EXCEPT !.user_value = d.value], data |-> d, exc |-> d.exc]
    ELSE [panel |-> [self EXCEPT !.user_value = data_in], data |-> widget, exc |-> ""]

DisplayPin_value(self, widget, data_in) ==
    LET stored == [self EXCEPT !.user_value = data_in]
    IN IF self.has_data
       THEN LET d == Widget_value(widget, data_in)
            IN [panel |-> stored, data |-> d, exc |-> d.exc]
       ELSE [panel |-> stored, data |-> widget, exc |-> ""]

\* the outcome of DisplayPin(name, mode, units, value=value, width=width,
\* height=height): the panel and its data widget, or the exception raised
DisplayPin_init(mode, units, value, width, height) ==
    LET value_range == DisplayPin_value_range(units)
        unbound == units \notin {"CP", "MP"}
        scale == height \div ((FONT_BB[2] * 9) \div 14)
        label_width == NAME_WIDTH * scale * FONT_BB[1]
        data_width == width - label_width - Gap
        self == [NoPanel EXCEPT !.units = units, !.mode = mode, !.width = width,
                                !.height = height,
                                !.data_dob_pos = label_width + Gap,
                                !.has_data = mode # "unused" /\ mode \in Modes]
        failed(e) == [panel |-> NoPanel, data |-> NoWidget, exc |-> e]
    IN IF mode \in {"read_analog", "write_trueanalog", "write_analog"} /\ unbound
       THEN failed("UnboundLocalError")
       ELSE LET widget ==
                  CASE mode \in {"read_analog", "write_trueanalog"} ->
                         DisplayPinDataAnalog_init(data_width, height, PyNone,
                                                   value_range, AnalogLineWidth)
                    [] mode \in {"read_digital", "write_digital"} ->
                         DisplayPinDataBooleanText_init("digital", data_width, PyNone)
                    [] mode = "write_analog" ->
                         DisplayPinDataPWM_init(data_width, height, PyNone,
                                                value_range, PWMLineWidth)
                    [] mode = "touch" ->
                         DisplayPinDataBooleanText_init("touch", data_width, PyNone)
                    [] mode = "music_frequency" ->
                         DisplayPinDataMusic_init(data_width, PyNone)
                    [] OTHER -> NoWidget
                r == DisplayPin_value(self, widget, value)
            IN IF r.exc # "" THEN failed(r.exc) ELSE r

\* ------------------------------------------------------------ the inputs
S_C4 == <<"C", "4">>
S_C4octave4 == <<"C", "4", ":", "o", "c", "t", "a", "v", "e", "4">>

IntSamples(R) ==
    {-5, -1, 0, 1, R \div 4, R \div 2, R \div 2 + 1, R - 2, R - 1, R, R + 7}
        \cup (IF R <= SmallRange THEN 0..(R - 1) ELSE {})

NumInputs(R) == {PyNone} \cup {PyInt(v) : v \in IntSamples(R)}

BoolInputs ==
    {PyNone, PyBool(TRUE), PyBool(FALSE), PyInt(0), PyInt(2), PyStr(<<>>), PyStr(S_C4)}

MusicInputs ==
    {PyNone, PyStr(S_C4), PyStr(S_C4octave4), PyStr(<<":">>), PyInt(262), PyInt(-7),
     PyTup(262, PyNone), PyTup(262, PyStr(S_C4)), PyTup(440, PyStr(S_C4octave4)),
     PyTup1(262), PyTup3(440, PyNone)}

UnusedInputs == {PyNone, PyInt(-5), PyInt(70000), PyStr(S_C4), PyBool(TRUE)}

Units == {"CP", "MP", "XX"}

\* the values a caller hands to a panel of the given mode and units
PanelInputs(mode, units) ==
    CASE mode \in {"read_analog", "write_trueanalog", "write_analog"} ->
           NumInputs(IF units = "MP" THEN MP_RANGE ELSE CP_RANGE)
      [] mode \in {"read_digital", "write_digital", "touch"} -> BoolInputs
      [] mode = "music_frequency" -> MusicInputs
      [] OTHER -> UnusedInputs

\* (width, height) of the panels built: one leaving SmallWidth columns to the
\* data widget, and the default one
PanelGeoms ==
    {<<NAME_WIDTH * FONT_BB[1] + Gap + SmallWidth, SmallHeight>>, <<120, 18>>}

\* (width, height, line_width, value_range) of the bar graphs and waves built
\* directly
WidgetGeoms ==
    {<<SmallWidth, SmallHeight, 1, SmallRange>>,
     <<SmallWidth, SmallHeight - 2, 2, SmallRange>>,
     <<SmallWidth + 2, SmallHeight, 1, MP_RANGE>>,
     <<DefaultWidth, SmallHeight, 1, CP_RANGE>>,
     <<DefaultWidth, SmallHeight, 2, MP_RANGE>>}

Call(name, arg, mode, units) == [name |-> name, arg |-> arg, mode |-> mode, units |-> units]

\* --------------------------------------------------------------- actions
Init ==
    /\ obj = "none"
    /\ panel = NoPanel
    /\ data = NoWidget
    /\ op = Call("", PyNone, "", "")
    /\ exc = ""

NewPanel ==
    /\ obj = "none"
    /\ \E mode \in Modes, units \in Units, g \in PanelGeoms :
         \E value \in PanelInputs(mode, units) :
            LET r == DisplayPin_init(mode, units, value, g[1], g[2])
            IN /\ obj' = IF r.exc = "" THEN "panel" ELSE "failed"
               /\ panel' = r.panel
               /\ data' = r.data
               /\ exc' = r.exc
               /\ op' = Call("new", value, mode, units)

\* a widget constructor that raises produces no object
Built(w, value) ==
    /\ obj' = IF w.exc = "" THEN "widget" ELSE "failed"
    /\ data' = IF w.exc = "" THEN w ELSE NoWidget
    /\ exc' = w.exc
    /\ panel' = NoPanel
    /\ op' = Call("new", value, "", "")

NewAnalog ==
    /\ obj = "none"
    /\ \E g \in WidgetGeoms : \E value \in NumInputs(g[4]) :
          Built(DisplayPinDataAnalog_init(g[1], g[2], value, g[4], g[3]), value)

NewPWM ==
    /\ obj = "none"
    /\ \E g \in WidgetGeoms : \E value \in NumInputs(g[4]) :
          Built(DisplayPinDataPWM_init(g[1], g[2], value, g[4], g[3]), value)

NewBooleanText ==
    /\ obj = "none"
    /\ \E kind \in {"booleantext", "digital", "touch"}, value \in BoolInputs :
          Built(DisplayPinDataBooleanText_init(kind, DefaultWidth, value), value)

NewMusic ==
    /\ obj = "none"
    /\ \E value \in MusicInputs :
          Built(DisplayPinDataMusic_init(DefaultWidth, value), value)

\* widget.value = value, on a widget built directly
SetWidgetValue ==
    /\ obj = "widget"
    /\ \E value \in (CASE data.kind \in {"analog", "pwm"} -> NumInputs(data.value_range)
                        [] data.kind = "music" -> MusicInputs
                        [] OTHER -> BoolInputs) :
          LET w == Widget_value(data, value)
          IN /\ data' = w
             /\ exc' = w.exc
             /\ op' = Call("set", value, "", "")
    /\ UNCHANGED <<obj, panel>>

\* panel.value = value
SetPanelValue ==
    /\ obj = "panel"
    /\ \E value \in PanelInputs(panel.mode, panel.units) :
          LET r == DisplayPin_value(panel, data, value)
          IN /\ panel' = r.panel
             /\ data' = r.data
             /\ exc' = r.exc
             /\ op' = Call("set", value, panel.mode, panel.units)
    /\ UNCHANGED obj

Next ==
    \/ NewPanel
    \/ NewAnalog
    \/ NewPWM
    \/ NewBooleanText
    \/ NewMusic
    \/ SetWidgetValue
    \/ SetPanelValue

Spec == Init /\ [][Next]_vars

\* ------------------------------------------------------------ properties
\* the clamp of a value into [0, R), None staying None
ClampTo(R, v) ==
    IF IsNone(v) THEN PyNone
    ELSE IF v.n < 0 THEN PyInt(0)
    ELSE IF v.n > R - 1 THEN PyInt(R - 1)
    ELSE v

Live == obj \in {"widget", "panel"}
IsAnalog == Live /\ data.kind = "analog"
IsPWM == Live /\ data.kind = "pwm"
IsBooleanText == Live /\ data.kind \in {"booleantext", "digital", "touch"}
IsMusic == Live /\ data.kind = "music"
Assigned == op.name \in {"new", "set"}
InRange(v) == v.t = "int" /\ 0 <= v.n /\ v.n < data.value_range

\* the marker position the contract gives for value v
MarkerPos(v) == ((data.width - data.line_width + 1) * v) \div data.value_range

\* C1: on a bar graph of width w, line thickness t and range R, after
\* assigning an integer v with 0 <= v < R the marker x position is
\* floor((w - t + 1) * v / R), and the position reached by assigning v is
\* non-decreasing in v.
C1_MarkerPosition ==
    IsAnalog =>
        /\ (Assigned /\ InRange(op.arg)) => data.line_x = MarkerPos(op.arg.n)
        /\ \A v1, v2 \in IntSamples(data.value_range) :
              (0 <= v1 /\ v1 <= v2 /\ v2 < data.value_range) =>
                  DisplayPinDataAnalog_value(data, PyInt(v1)).line_x
                      <= DisplayPinDataAnalog_value(data, PyInt(v2)).line_x

C1_Witness ==
    /\ IsAnalog /\ op.name = "set" /\ InRange(op.arg)
    /\ op.arg.n = data.value_range - 1
    /\ data.line_x = data.width - data.line_width

\* C2: on a bar graph and on a waveform of range R, from any state,
\* assigning v < 0 gives exactly the state that assigning 0 gives, assigning
\* v >= R gives exactly the state that assigning R - 1 gives, and the stored
\* value is None or within [0, R).
C2_Clamping ==
    (IsAnalog \/ IsPWM) =>
        /\ \A v \in IntSamples(data.value_range) :
              /\ v < 0 => Widget_value(data, PyInt(v)) = Widget_value(data, PyInt(0))
              /\ v >= data.value_range =>
                    Widget_value(data, PyInt(v))
                        = Widget_value(data, PyInt(data.value_range - 1))
        /\ IsNone(data.value) \/ InRange(data.value)
        /\ (Assigned /\ ~IsNone(op.arg) /\ op.arg.n < 0) => data.value = PyInt(0)
        /\ (Assigned /\ ~IsNone(op.arg) /\ op.arg.n >= data.value_range) =>
              data.value = PyInt(data.value_range - 1)

C2_Witness ==
    /\ IsPWM /\ op.name = "set" /\ op.arg.t = "int"
    /\ op.arg.n > data.value_range
    /\ data.value = PyInt(data.value_range - 1)
    /\ data.spy > 0

\* C3: assigning the same value twice in a row writes nothing to the
\* drawables (marker x, bitmap, label text) the second time; on the bar graph
\* and the waveform the same holds when the assigned value maps to the cached
\* position or edge.
C3_Idempotent ==
    [][ (Live /\ op'.name = "set") =>
          /\ (op.name = "set" /\ op'.arg = op.arg) => data'.spy = 0
          /\ (data.kind = "analog" /\ ~IsNone(op'.arg)
                 /\ MarkerPos(ClampTo(data.value_range, op'.arg).n) = data.line_x)
                => data'.spy = 0
          /\ (data.kind = "pwm"
                 /\ DisplayPinDataPWM_waveXPos(data, ClampTo(data.value_range, op'.arg))
                      = data.edge)
                => data'.spy = 0 ]_vars

C3_Witness ==
    /\ IsPWM /\ op.name = "set" /\ data.spy = 0
    /\ data.edge.t = "int" /\ data.bmp # {}
    /\ data.value = op.arg

\* the reference rendering of value v on a wave bitmap of width w and height
\* h, for line thickness t and range R
RefWave(w, h, t, R, v) ==
    IF IsNone(v) THEN {}
    ELSE IF v.n = 0 THEN {p \in (0..(w - 1)) \X (0..(h - 1)) : p[2] = h - 1}
    ELSE IF v.n = R - 1 /\ R >= 65536
    THEN {p \in (0..(w - 1)) \X (0..(h - 1)) : p[2] = 0}
    ELSE LET c == ((w - t + 1) * v.n) \div R
         IN {p \in (0..(w - 1)) \X (0..(h - 1)) :
               \/ p[1] = 0
               \/ p[2] = 0 /\ 1 <= p[1] /\ p[1] <= c - 1
               \/ c # 0 /\ p[1] = c
               \/ p[2] = h - 1 /\ c + 1 <= p[1]}

\* C4: on a waveform constructed without an initial value, the wave bitmap
\* is the reference rendering of the stored (clamped) value: blank for None,
\* bottom row for 0, top row for R - 1 when R >= 65536, and otherwise rising
\* edge, top row, falling edge at floor((w - t + 1) * v / R), bottom row.
C4_WaveRendering ==
    (IsPWM /\ IsNone(data.init_value)) =>
        data.bmp = RefWave(data.width, data.wave_height, data.line_width,
                           data.value_range, data.value)

C4_Witness ==
    /\ IsPWM /\ IsNone(data.init_value) /\ op.name = "set"
    /\ data.value_range = MP_RANGE /\ data.value = PyInt(MP_RANGE - 1)
    /\ data.spy > 0
    /\ <<0, data.wave_height - 1>> \in data.bmp
    /\ <<1, data.wave_height - 1>> \notin data.bmp

\* the waveform of the scenario: width 100, range 65536, line thickness 1,
\* after value = 32768 was assigned
C5_Scenario ==
    /\ IsPWM /\ data.width = 100 /\ data.value_range = 65536 /\ data.line_width = 1
    /\ op.name = "set" /\ op.arg = PyInt(32768)

\* rising edge at column 0, top row on columns 1..c-1, falling edge at
\* column c, bottom row on columns c+1..99
C5_Wave(c) ==
    {p \in (0..99) \X (0..(data.wave_height - 1)) :
        \/ p[1] = 0
        \/ p[1] = c
        \/ p[2] = 0 /\ p[1] \in 1..(c - 1)
        \/ p[2] = data.wave_height - 1 /\ p[1] \in (c + 1)..99}

\* C5 as stated: the falling edge is at column 49, top row on 1..48, bottom
\* row on 50..99.
C5_Original ==
    C5_Scenario => (data.edge = PyInt(49) /\ data.bmp = C5_Wave(49))

\* C5 amended: the falling edge is at column 50 = floor(100 * 32768 / 65536);
\* the bitmap drawn shows top row on 1..49, falling edge at 50 and bottom row
\* on 51..99, and it is drawn whenever the widget was constructed without an
\* initial value (otherwise it may have been left blank).
C5_FallingEdge50 ==
    C5_Scenario =>
        /\ data.edge = PyInt(50)
        /\ data.bmp \in {C5_Wave(50), {}}
        /\ IsNone(data.init_value) => data.bmp = C5_Wave(50)

C5_Witness ==
    /\ C5_Scenario /\ IsNone(data.init_value) /\ data.spy > 0
    /\ data.bmp = C5_Wave(50)

\* C6: reading panel.value gives exactly the last assigned value, raw; the
\* data widget, when there is one, was handed that value: a bar graph or a
\* waveform stores its clamp into [0, value_range), a boolean text its
\* truthiness, a note widget the value itself.
C6_PanelValue ==
    obj = "panel" =>
        /\ Assigned
        /\ panel.user_value = op.arg
        /\ panel.has_data = (data.kind # "none")
        /\ data.kind \in {"analog", "pwm"} =>
              data.value = ClampTo(data.value_range, panel.user_value)
        /\ data.kind \in {"digital", "touch"} =>
              data.value = (IF IsNone(panel.user_value) THEN PyNone
                            ELSE PyBool(Truthy(panel.user_value)))
        /\ data.kind = "music" => data.value = panel.user_value

C6_Witness ==
    /\ obj = "panel" /\ panel.mode = "read_analog" /\ op.name = "set"
    /\ op.arg.t = "int" /\ op.arg.n > data.value_range
    /\ panel.user_value = op.arg
    /\ data.value = PyInt(data.value_range - 1)

\* C7: constructing a panel with a unit-system tag other than "CP" and "MP"
\* fails in every mode: no panel object is produced.
C7_BadUnitsFail ==
    (op.name = "new" /\ op.mode \in Modes /\ op.units \notin {"CP", "MP"}) =>
        (obj = "failed" /\ exc # "")

\* C8: the note widget's value setter accepts a string, a bare frequency
\* number and a 2-tuple without error; the label shows the part of the
\* string before its first colon, the integer frequency followed by "Hz",
\* or the tuple's name when it has one and else its frequency and "Hz".
C8_NoteForms ==
    (IsMusic /\ op.name = "set" /\ ~IsNone(op.arg)) =>
        /\ exc = ""
        /\ op.arg = PyStr(S_C4octave4) => data.text = <<"C", "4">>
        /\ op.arg = PyStr(S_C4) => data.text = <<"C", "4">>
        /\ op.arg = PyInt(262) => data.text = <<"2", "6", "2", "H", "z">>
        /\ op.arg = PyTup(262, PyNone) => data.text = <<"2", "6", "2", "H", "z">>
        /\ op.arg = PyTup(262, PyStr(S_C4)) => data.text = <<"C", "4">>

\* an assignment of None to a bar graph that holds a value
C9_AssignNone ==
    /\ IsAnalog /\ ~IsNone(data.value) /\ data.line_x = MarkerPos(data.value.n)
    /\ op'.name = "set" /\ IsNone(op'.arg)

\* C9 as stated: assigning None makes the stored value None, draws nothing
\* and clears the marker position, which no longer is the position of the
\* previous value.
C9_Original ==
    [][ C9_AssignNone =>
          (IsNone(data'.value) /\ data'.spy = 0
             /\ data'.line_x # MarkerPos(data.value.n)) ]_vars

\* C9 amended: assigning None makes the stored value None and draws nothing;
\* the marker position is left as it was, at the position of the previous
\* value.
C9_NoneKeepsMarker ==
    [][ C9_AssignNone =>
          (IsNone(data'.value) /\ data'.spy = 0
             /\ data'.line_x = MarkerPos(data.value.n)) ]_vars

C9_Witness ==
    /\ IsAnalog /\ op.name = "set" /\ IsNone(op.arg) /\ IsNone(data.value)
    /\ data.line_x = data.width - data.line_width

\* C10: a boolean text widget stores None or the truthiness of the last
\* assigned value, and its label shows "" for None, true_text for True and
\* false_text for False: "low"/"HIGH" when digital, "-----"/"Touch" for touch.
C10_BooleanText ==
    (IsBooleanText /\ data.kind \in {"digital", "touch"}) =>
        /\ Assigned
        /\ data.value = (IF IsNone(op.arg) THEN PyNone ELSE PyBool(Truthy(op.arg)))
        /\ data.text =
              (CASE IsNone(data.value) -> <<>>
                 [] data.value = PyBool(TRUE) ->
                      (IF data.kind = "digital" THEN <<"H", "I", "G", "H">>
                       ELSE <<"T", "o", "u", "c", "h">>)
                 [] data.value = PyBool(FALSE) ->
                      (IF data.kind = "digital" THEN <<"l", "o", "w">>
                       ELSE <<"-", "-", "-", "-", "-">>))

C10_Witness ==
    /\ IsBooleanText /\ data.kind = "digital" /\ op.name = "set"
    /\ op.arg = PyStr(<<>>)
    /\ data.value = PyBool(FALSE) /\ data.text = <<"l", "o", "w">>
    /\ data.spy > 0

\* C11: on a waveform, after construction with any initial value and any
\* sequence of assignments, the wave bitmap is the rendering of the stored
\* (clamped) value and the cached edge is the edge computed from the stored
\* value; so a widget constructed with initial value v shows what a widget
\* constructed without a value and then assigned v shows.
C11_WaveInvariant ==
    IsPWM =>
        /\ data.bmp = RefWave(data.width, data.wave_height, data.line_width,
                              data.value_range, data.value)
        /\ data.edge = DisplayPinDataPWM_waveXPos(data, data.value)
        /\ data.bmp = DisplayPinDataPWM_value(
                          DisplayPinDataPWM_init(data.width,
                                                 data.wave_height + PWMScaleHeight + 3,
                                                 PyNone, data.value_range,
                                                 data.line_width),
                          data.value).bmp

\* the label text the resolution policy gives for a stored value
C12_Resolved(v) ==
    CASE IsNone(v) -> <<>>
      [] v.t = "str" -> SplitFirst(v.s)
      [] v.t = "int" -> FormatD(v.n) \o S_Hz
      [] OTHER -> IF v.named THEN v.s ELSE FormatD(v.n) \o S_Hz

\* C12: on a note widget, after any sequence of assignments the label text
\* is the text resolved from the stored value ("" when it is None), and an
\* assignment that fails leaves the stored value and the label text as they
\* were, so that the same assignment repeated fails again.
C12_NoteConsistent ==
    [][ (IsMusic /\ op'.name = "set") =>
          /\ data'.value.t # "tup1" => data'.text = C12_Resolved(data'.value)
          /\ exc' # "" => (data'.value = data.value /\ data'.text = data.text)
          /\ (exc # "" /\ op.name = "set" /\ op'.arg = op.arg) => exc' # "" ]_vars

====
